---- MODULE Spec2Model ----
(***************************************************************************)
(* Model of the useGaitMetrics hook (third revision, part_001:295-515) and *)
(* of the endpoint configuration it imports (src/lib/apiConfig.ts and its  *)
(* earlier revision part_000).                                             *)
(*                                                                         *)
(* Numbers are exact rationals <<num, den>> (den > 0, lowest terms), so    *)
(* 1.2 is <<6, 5>> and an average is computed as sum / length.  Strings    *)
(* that the code takes apart (URLs) are sequences of one-character         *)
(* strings.  Null, the empty tuple, stands for a JavaScript null or       *)
(* undefined where the value is otherwise a number or Some(x).             *)
(*                                                                         *)
(* Every handler is one atomic action (the event loop runs one callback    *)
(* at a time).  The handlers stay attached after the cleanup ran, and      *)
(* their setState calls are modelled as the source writes them.            *)
(***************************************************************************)
EXTENDS Integers, Sequences, FiniteSets, TLC

\* ------------------------------------------------------------------ bounds
MaxMsgs == 2          \* telemetry messages the backend streams
MaxHist == 21         \* most records one historical response carries
MaxSockets == 2       \* WebSocket objects constructed in one run

\* ------------------------------------------------------- program constants
Capacity == 20
DefaultScore == <<4, 1>>
DefaultConfidence == <<17, 20>>

Null == <<>>
Some(x) == <<x>>
Zero == <<0, 1>>
Undefined == <<"undefined">>

\* ------------------------------------------------------------- arithmetic
RECURSIVE Gcd(_, _)
Gcd(a, b) == IF b = 0 THEN a ELSE Gcd(b, a % b)

Rat(n, d) == LET g == Gcd(n, d) IN <<n \div g, d \div g>>

\* ---------------------------------------------------------- configuration
HttpPrefix == <<"h", "t", "t", "p", ":", "/", "/">>
HttpsPrefix == <<"h", "t", "t", "p", "s", ":", "/", "/">>
WsPrefix == <<"w", "s", ":", "/", "/">>
WssPrefix == <<"w", "s", "s", ":", "/", "/">>
DefaultBase == HttpPrefix \o <<"l", "o", "c", "a", "l", "h", "o", "s", "t", ":", "5", "0", "0", "0">>

StartsWith(s, p) == Len(s) >= Len(p) /\ SubSeq(s, 1, Len(p)) = p
Drop(s, k) == SubSeq(s, k + 1, Len(s))

\* values of import.meta.env.VITE_API_URL
EmptyString == <<>>
EnvValues == {Undefined, EmptyString}

\* apiConfig.ts: VITE_API_URL || 'http://localhost:5000'
ApiBaseWithDefault(env) == IF env = Undefined \/ env = EmptyString THEN DefaultBase ELSE env
\* part_000: VITE_API_URL as it is (an undefined value makes the module
\* throw on load, so no hook ever runs with it)
ApiBaseStrict(env) == env

\* the replacement without the ternary: every scheme becomes ws://
WsUrlAlwaysWs(base) ==
    IF StartsWith(base, HttpsPrefix) THEN WsPrefix \o Drop(base, Len(HttpsPrefix))
    ELSE IF StartsWith(base, HttpPrefix) THEN WsPrefix \o Drop(base, Len(HttpPrefix))
    ELSE base

\* API_BASE.replace(/^https?:\/\//, startsWith('https://') ? 'wss://' : 'ws://')
WsUrl(base) ==
    LET repl == IF StartsWith(base, HttpsPrefix) THEN WssPrefix ELSE WsPrefix
    IN  IF StartsWith(base, HttpsPrefix) THEN repl \o Drop(base, Len(HttpsPrefix))
        ELSE IF StartsWith(base, HttpPrefix) THEN repl \o Drop(base, Len(HttpPrefix))
        ELSE base

Falsy(s) == s = Undefined \/ s = EmptyString

\* ------------------------------------------------------------ the backend
\* Field k of the n-th sample the backend produces: absent, zero or a value
\* that identifies the sample.
RawField(n, k) ==
    IF (n + k) % 5 = 0 THEN Null
    ELSE IF (n + k) % 5 = 1 THEN Zero
    ELSE <<10 * n + k, 1>>

RawSample(n) ==
    [cadence |-> RawField(n, 1), equilibrium |-> RawField(n, 2),
     frequency |-> RawField(n, 3), kneeForce |-> RawField(n, 4),
     posturalSway |-> RawField(n, 5), stepCount |-> RawField(n, 6),
     strideLength |-> RawField(n, 7), timestamp |-> RawField(n, 8),
     walkingSpeed |-> RawField(n, 9)]

\* an object that carries none of the fields
NoFields ==
    [cadence |-> Null, equilibrium |-> Null, frequency |-> Null, kneeForce |-> Null,
     posturalSway |-> Null, stepCount |-> Null, strideLength |-> Null,
     timestamp |-> Null, walkingSpeed |-> Null]

StreamRaw(n) == RawSample(n)
HistRaw(i) == RawSample(100 + i)
HistItems(n) == [i \in 1..n |-> HistRaw(i)]

VARIABLES
    API_BASE,        \* the configured REST base (fixed for a run)
    phase,           \* "init" | "mounted" | "unmounted"
    state,           \* the composite state of useState
    historicalData,  \* historicalData.current
    wsRef,           \* wsRef.current: 0 (null) or an index into sockets
    sockets,         \* every WebSocket constructed so far
    timers,          \* pending setTimeout(connectWebSocket, 3000) calls
    fetchPc,         \* position of fetchHistoricalData and fetchMLGaitScore
    features,        \* body of the scoring request, Null before it is sent
    mlRequests,      \* scoring requests issued
    recv,            \* telemetry samples streamed so far
    console,         \* the last line written to the console
    response,        \* what the historical request settled with
    mlResponse       \* what the scoring request settled with

vars == <<API_BASE, phase, state, historicalData, wsRef, sockets, timers,
          fetchPc, features, mlRequests, recv, console, response, mlResponse>>

WS_URL == WsUrl(API_BASE)

\* Date.now(): a clock that advances with the samples received
Now == <<1000 + recv, 1>>

\* ------------------------------------------------------------ normalizer
\* value || 0
\* the field copied as received, without the "|| 0"
OrZeroOmitted(v) == v

OrZero(v) == IF v = Null \/ v = Zero THEN Zero ELSE v

\* new Date(value || Date.now()).getTime()
TimeOf(v, now) == IF v = Null \/ v = Zero THEN now ELSE v

\* the GaitDataEntry literal built from one BackendGaitItem
Normalize(item, now) ==
    [cadence |-> OrZero(item.cadence),
     equilibriumScore |-> OrZero(item.equilibrium),
     frequency |-> OrZero(item.frequency),
     posturalSway |-> OrZero(item.posturalSway),
     sensors |-> <<>>,
     stepWidth |-> Zero,
     steps |-> OrZero(item.stepCount),
     strideLength |-> OrZero(item.strideLength),
     kneeForce |-> OrZero(item.kneeForce),
     timestamp |-> TimeOf(item.timestamp, now),
     walkingSpeed |-> OrZero(item.walkingSpeed)]

\* --------------------------------------------------- rolling history buffer
Reverse(s) == [i \in 1..Len(s) |-> s[Len(s) + 1 - i]]

\* Array.prototype.slice(-k)
SliceLast(s, k) == IF Len(s) <= k THEN s ELSE SubSeq(s, Len(s) - k + 1, Len(s))

\* the entry assigned as the whole buffer instead of unshifted onto it
PrependReplaces(buf, entry) == <<entry>>

\* Prepend without the overflow check
PrependNoEvict(buf, entry) == <<entry>> \o buf

\* Prepend with push/shift in place of unshift/pop
PrependAtBack(buf, entry) ==
    LET grown == buf \o <<entry>>
    IN  IF Len(grown) > Capacity THEN Tail(grown) ELSE grown

\* unshift(entry); if (length > 20) pop()
Prepend(buf, entry) ==
    LET grown == <<entry>> \o buf
    IN  IF Len(grown) > Capacity THEN SubSeq(grown, 1, Len(grown) - 1) ELSE grown

\* result.data.map(...).reverse(), then slice(-20)
Backfill(items, now) ==
    LET mappedData == Reverse([i \in 1..Len(items) |-> Normalize(items[i], now)])
    IN  SliceLast(mappedData, Capacity)

\* ------------------------------------------------------------ scoring
DefaultSample ==
    [cadence |-> <<100, 1>>, walkingSpeed |-> <<6, 5>>, strideLength |-> <<7, 10>>,
     equilibriumScore |-> <<4, 5>>, frequency |-> <<3, 2>>, posturalSway |-> <<1, 10>>,
     kneeForce |-> <<50, 1>>, timestamp |-> Zero, steps |-> Zero, stepWidth |-> Zero,
     sensors |-> <<>>]

\* useData.reduce((sum, d) => sum + d[f], 0) as a fraction over the common
\* denominator of the summands
RECURSIVE CommonDen(_, _, _)
CommonDen(s, f, k) == IF k = 0 THEN 1 ELSE CommonDen(s, f, k - 1) * s[k][f][2]

RECURSIVE SumNum(_, _, _, _)
SumNum(s, f, k, den) ==
    IF k = 0 THEN 0 ELSE SumNum(s, f, k - 1, den) + s[k][f][1] * (den \div s[k][f][2])

\* reduce(...) / useData.length
Avg(s, f) == Rat(SumNum(s, f, Len(s), CommonDen(s, f, Len(s))), CommonDen(s, f, Len(s)) * Len(s))

\* the first half of fetchMLGaitScore: the feature vector of the request
Features(data) ==
    LET useData == IF Len(data) > 0 THEN data ELSE <<DefaultSample>>
    IN  <<Avg(useData, "cadence"), Avg(useData, "walkingSpeed"),
          Avg(useData, "strideLength"), Avg(useData, "equilibriumScore"),
          Avg(useData, "frequency"), Avg(useData, "posturalSway"),
          Avg(useData, "kneeForce")>>

\* result.data?.[i] || dflt
SlotOr(slot, dflt) == IF slot = Null \/ slot = Zero THEN dflt ELSE slot

Fallback == [score |-> DefaultScore, confidence |-> DefaultConfidence]

\* the second half of fetchMLGaitScore on a parsed body {data: [s, c]}
Extract(s, c) == [score |-> SlotOr(s, DefaultScore), confidence |-> SlotOr(c, DefaultConfidence)]

\* ------------------------------------------------------------ the hook
\* useState initial value
InitialState ==
    [data |-> Null, loading |-> TRUE, error |-> "none", isConnected |-> FALSE,
     mlResult |-> Null]

\* nothing has settled yet
NoResponse == [kind |-> "none", success |-> FALSE, n |-> -1]
MlNoResponse == [kind |-> "none", s |-> Null, c |-> Null]

\* new WebSocket(WS_URL); connected holds from the dispatch of the socket's
\* open event to the dispatch of its close event
NewSocket == [readyState |-> "CONNECTING", events |-> <<>>, url |-> WS_URL, connected |-> FALSE]

Init ==
    /\ API_BASE \in {ApiBaseWithDefault(e) : e \in EnvValues}
                    \cup {ApiBaseStrict(e) : e \in EnvValues \ {Undefined}}
    /\ phase = "init"
    /\ state = InitialState
    /\ historicalData = <<>>
    /\ wsRef = 0
    /\ sockets = <<>>
    /\ timers = 0
    /\ fetchPc = "init"
    /\ features = Null
    /\ mlRequests = 0
    /\ recv = 0
    /\ console = "none"
    /\ response = NoResponse
    /\ mlResponse = MlNoResponse

\* connectWebSocket up to the handler assignments
SocketsAfterConnect(socks) == IF Falsy(WS_URL) THEN socks ELSE Append(socks, NewSocket)
RefAfterConnect(ref, socks) == IF Falsy(WS_URL) THEN ref ELSE Len(socks) + 1

\* setTimeout(connectWebSocket, 3000)
SetTimeout(t) == t + 1

\* the three effects of the first commit, in source order
Mount ==
    /\ phase = "init"
    /\ phase' = "mounted"
    /\ state' = IF Falsy(API_BASE) \/ Falsy(WS_URL)
                THEN [state EXCEPT !.error = "config", !.loading = FALSE]
                ELSE state
    /\ sockets' = SocketsAfterConnect(sockets)
    /\ wsRef' = RefAfterConnect(wsRef, sockets)
    /\ fetchPc' = IF Falsy(API_BASE) THEN "skipped" ELSE "fetching"
    /\ UNCHANGED <<console, response, mlResponse, API_BASE, historicalData, timers, features, mlRequests, recv>>

\* the cleanup of the connection effect
Unmount ==
    /\ phase = "mounted"
    /\ phase' = "unmounted"
    /\ sockets' = IF wsRef # 0 /\ sockets[wsRef].readyState \in {"CONNECTING", "OPEN"}
                  THEN [sockets EXCEPT ![wsRef].readyState = "CLOSING"]
                  ELSE sockets
    /\ UNCHANGED <<console, response, mlResponse, API_BASE, state, historicalData, wsRef, timers, fetchPc, features,
                   mlRequests, recv>>

\* ---- the transport: what the browser does to a WebSocket
TransportFails(s) ==
    /\ sockets[s].readyState \in {"CONNECTING", "OPEN", "CLOSING"}
    /\ sockets' = [sockets EXCEPT ![s].readyState = "CLOSED", ![s].events = <<"error", "close">>]
    /\ UNCHANGED <<console, response, mlResponse, API_BASE, phase, state, historicalData, wsRef, timers, fetchPc,
                   features, mlRequests, recv>>

TransportCloses(s) ==
    /\ sockets[s].readyState \in {"OPEN", "CLOSING"}
    /\ sockets' = [sockets EXCEPT ![s].readyState = "CLOSED", ![s].events = <<"close">>]
    /\ UNCHANGED <<console, response, mlResponse, API_BASE, phase, state, historicalData, wsRef, timers, fetchPc,
                   features, mlRequests, recv>>

\* ---- the handlers of one socket
\* OnOpen that resets the error field on a successful open
OnOpenClearsError(s) ==
    /\ sockets[s].readyState = "CONNECTING"
    /\ sockets' = [sockets EXCEPT ![s].readyState = "OPEN", ![s].connected = TRUE]
    /\ state' = [state EXCEPT !.isConnected = TRUE, !.loading = FALSE, !.error = "none"]
    /\ console' = "connected"
    /\ UNCHANGED <<API_BASE, phase, historicalData, wsRef, timers, fetchPc, features,
                   mlRequests, recv, response, mlResponse>>

OnOpen(s) ==
    /\ sockets[s].readyState = "CONNECTING"
    /\ sockets' = [sockets EXCEPT ![s].readyState = "OPEN", ![s].connected = TRUE]
    /\ state' = [state EXCEPT !.isConnected = TRUE, !.loading = FALSE]
    /\ console' = "connected"
    /\ UNCHANGED <<API_BASE, phase, historicalData, wsRef, timers, fetchPc, features,
                   mlRequests, recv, response, mlResponse>>

\* OnMessageIgnored without the return of the handshake branch: the
\* handshake object is normalized and stored like a telemetry record
OnMessageHandshakeFallsThrough(s, kind) ==
    /\ sockets[s].readyState = "OPEN"
    /\ kind \in {"malformed", "null", "connection"}
    /\ console' = IF kind = "connection" THEN "handshake" ELSE "parse-error"
    /\ IF kind = "connection"
       THEN /\ historicalData' = Prepend(historicalData, Normalize(NoFields, Now))
            /\ state' = [state EXCEPT !.data = Some(historicalData'), !.loading = FALSE]
       ELSE UNCHANGED <<state, historicalData>>
    /\ UNCHANGED <<API_BASE, phase, wsRef, sockets, timers,
                   fetchPc, features, mlRequests, recv, response, mlResponse>>

\* OnMessageIgnored whose catch block reports the failure in the state
OnMessageCatchSetsError(s, kind) ==
    /\ sockets[s].readyState = "OPEN"
    /\ kind \in {"malformed", "null", "connection"}
    /\ console' = IF kind = "connection" THEN "handshake" ELSE "parse-error"
    /\ state' = IF kind = "connection" THEN state ELSE [state EXCEPT !.error = "ws"]
    /\ UNCHANGED <<API_BASE, phase, historicalData, wsRef, sockets, timers,
                   fetchPc, features, mlRequests, recv, response, mlResponse>>

\* a message that JSON.parse rejects ("malformed"), that parses to null so
\* that reading a field throws ("null"), or that carries type "connection"
OnMessageIgnored(s, kind) ==
    /\ sockets[s].readyState = "OPEN"
    /\ kind \in {"malformed", "null", "connection"}
    /\ console' = IF kind = "connection" THEN "handshake" ELSE "parse-error"
    /\ UNCHANGED <<API_BASE, phase, state, historicalData, wsRef, sockets, timers,
                   fetchPc, features, mlRequests, recv, response, mlResponse>>

OnMessageAccepted(s, item) ==
    /\ sockets[s].readyState = "OPEN"
    /\ recv < MaxMsgs
    /\ recv' = recv + 1
    /\ historicalData' = Prepend(historicalData, Normalize(item, Now))
    /\ state' = [state EXCEPT !.data = Some(historicalData'), !.loading = FALSE]
    /\ UNCHANGED <<console, response, mlResponse, API_BASE, phase, wsRef, sockets, timers, fetchPc, features, mlRequests>>

\* OnClose that schedules the reconnect but leaves the flag alone
OnCloseKeepsFlag(s) ==
    /\ sockets[s].events # <<>> /\ Head(sockets[s].events) = "close"
    /\ sockets' = [sockets EXCEPT ![s].events = Tail(@), ![s].connected = FALSE]
    /\ timers' = SetTimeout(timers)
    /\ console' = "disconnected"
    /\ UNCHANGED <<API_BASE, phase, state, historicalData, wsRef, fetchPc, features,
                   mlRequests, recv, response, mlResponse>>

OnClose(s) ==
    /\ sockets[s].events # <<>> /\ Head(sockets[s].events) = "close"
    /\ sockets' = [sockets EXCEPT ![s].events = Tail(@), ![s].connected = FALSE]
    /\ state' = [state EXCEPT !.isConnected = FALSE]
    /\ timers' = SetTimeout(timers)
    /\ console' = "disconnected"
    /\ UNCHANGED <<API_BASE, phase, historicalData, wsRef, fetchPc, features,
                   mlRequests, recv, response, mlResponse>>

\* OnError that also marks the hook as disconnected
OnErrorDisconnects(s) ==
    /\ sockets[s].events # <<>> /\ Head(sockets[s].events) = "error"
    /\ sockets' = [sockets EXCEPT ![s].events = Tail(@)]
    /\ state' = [state EXCEPT !.error = "ws", !.isConnected = FALSE]
    /\ console' = "ws-error"
    /\ UNCHANGED <<API_BASE, phase, historicalData, wsRef, timers, fetchPc, features,
                   mlRequests, recv, response, mlResponse>>

\* OnError that also schedules a reconnect, as the close handler does
OnErrorReconnects(s) ==
    /\ sockets[s].events # <<>> /\ Head(sockets[s].events) = "error"
    /\ sockets' = [sockets EXCEPT ![s].events = Tail(@)]
    /\ state' = [state EXCEPT !.error = "ws"]
    /\ console' = "ws-error"
    /\ timers' = SetTimeout(timers)
    /\ UNCHANGED <<API_BASE, phase, historicalData, wsRef, fetchPc, features,
                   mlRequests, recv, response, mlResponse>>

OnError(s) ==
    /\ sockets[s].events # <<>> /\ Head(sockets[s].events) = "error"
    /\ sockets' = [sockets EXCEPT ![s].events = Tail(@)]
    /\ state' = [state EXCEPT !.error = "ws"]
    /\ console' = "ws-error"
    /\ UNCHANGED <<API_BASE, phase, historicalData, wsRef, timers, fetchPc, features,
                   mlRequests, recv, response, mlResponse>>

\* ReconnectTimerFires with a retry limit: after a recorded transport error
\* the timer fires without a new attempt
ReconnectTimerGivesUp ==
    /\ timers > 0
    /\ Len(sockets) < MaxSockets
    /\ timers' = timers - 1
    /\ sockets' = IF state.error = "ws" THEN sockets ELSE SocketsAfterConnect(sockets)
    /\ wsRef' = IF state.error = "ws" THEN wsRef ELSE RefAfterConnect(wsRef, sockets)
    /\ UNCHANGED <<console, response, mlResponse, API_BASE, phase, state, historicalData, fetchPc, features,
                   mlRequests, recv>>

\* a pending reconnect timer fires and runs connectWebSocket
ReconnectTimerFires ==
    /\ timers > 0
    /\ Len(sockets) < MaxSockets
    /\ timers' = timers - 1
    /\ sockets' = SocketsAfterConnect(sockets)
    /\ wsRef' = RefAfterConnect(wsRef, sockets)
    /\ UNCHANGED <<console, response, mlResponse, API_BASE, phase, state, historicalData, fetchPc, features,
                   mlRequests, recv>>

\* ---- fetchHistoricalData
\* lengths of the data array of a response: around empty and around Capacity
HistSizes == {0, 1} \cup Capacity..MaxHist

\* what response.json() of a 2xx response settles with: a rejection
\* ("throw"), or an envelope whose data is missing (n = -1) or a list of n
\* records, oldest first
Envelopes ==
    {[kind |-> "throw", success |-> FALSE, n |-> -1]}
    \cup {[kind |-> "envelope", success |-> b, n |-> k] : b \in BOOLEAN, k \in {-1, 1}}
    \cup {[kind |-> "envelope", success |-> TRUE, n |-> k] : k \in HistSizes}

Rejected == [kind |-> "reject", success |-> FALSE, n |-> -1]
NotOk == [kind |-> "status", success |-> FALSE, n |-> -1]

\* the catch block, lines 453-458
CatchState(st) == [st EXCEPT !.error = "fetch", !.loading = FALSE, !.data = Some(<<>>)]

\* the else branch publishing the empty list without clearing loading
NoDataStateKeepsLoading(st) == [st EXCEPT !.data = Some(<<>>)]

\* the else branch, lines 447-451
NoDataState(st) == [st EXCEPT !.data = Some(<<>>), !.loading = FALSE]

\* the call of fetchMLGaitScore up to its await: the request is sent with
\* the features of the buffer as it is now
StartScoring(buf) ==
    /\ features' = Features(buf)
    /\ mlRequests' = mlRequests + 1
    /\ fetchPc' = "mlFetching"

\* await fetch(...) rejects
FetchRejects ==
    /\ fetchPc = "fetching"
    /\ response' = Rejected
    /\ state' = CatchState(state)
    /\ historicalData' = <<>>
    /\ console' = "fetch-error"
    /\ StartScoring(historicalData')
    /\ UNCHANGED <<API_BASE, phase, wsRef, sockets, timers, recv, mlResponse>>

\* await fetch(...) resolves with a non-2xx status: the if has no else
FetchNotOk ==
    /\ fetchPc = "fetching"
    /\ response' = NotOk
    /\ StartScoring(historicalData)
    /\ UNCHANGED <<API_BASE, phase, state, historicalData, wsRef, sockets, timers,
                   recv, console, mlResponse>>

\* await fetch(...) resolves with a 2xx status whose body is body
FetchOk(body) ==
    /\ fetchPc = "fetching"
    /\ response' = body
    /\ fetchPc' = "json"
    /\ console' = "response-body"
    /\ UNCHANGED <<API_BASE, phase, state, historicalData, wsRef, sockets, timers,
                   features, mlRequests, recv, mlResponse>>

\* await response.json() settles
JsonSettles ==
    /\ fetchPc = "json"
    /\ IF response.kind = "throw"
       THEN /\ state' = CatchState(state)
            /\ historicalData' = <<>>
            /\ console' = "fetch-error"
       ELSE IF response.success /\ response.n >= 0
       THEN /\ historicalData' = Backfill(HistItems(response.n), Now)
            /\ state' = [state EXCEPT !.data = Some(historicalData'), !.loading = FALSE]
            /\ UNCHANGED console
       ELSE /\ historicalData' = <<>>
            /\ state' = NoDataState(state)
            /\ UNCHANGED console
    /\ StartScoring(historicalData')
    /\ UNCHANGED <<API_BASE, phase, wsRef, sockets, timers, recv, response, mlResponse>>

\* ---- fetchMLGaitScore after the request is sent
\* result slots of a scoring response: each present, zero or absent
Slots ==
    {<<(<<36, 5>>), (<<91, 100>>)>>, <<Zero, (<<91, 100>>)>>, <<(<<36, 5>>), Zero>>,
     <<Null, (<<91, 100>>)>>, <<(<<36, 5>>), Null>>, <<Null, Null>>}

\* what the scoring request settles with: a rejection, a non-2xx status, a
\* body that does not parse (or is null), or {data: [s, c]} where a missing
\* data array is s = c = Null
MlBodies ==
    {[kind |-> "throw", s |-> Null, c |-> Null]}
    \cup {[kind |-> "result", s |-> p[1], c |-> p[2]] : p \in Slots}

MlRejected == [kind |-> "reject", s |-> Null, c |-> Null]
MlNotOk == [kind |-> "status", s |-> Null, c |-> Null]

\* setState(prev => ({ ...prev, mlResult }))
Publish(result) ==
    /\ state' = [state EXCEPT !.mlResult = Some(result)]
    /\ fetchPc' = "done"

MlRejects ==
    /\ fetchPc = "mlFetching"
    /\ mlResponse' = MlRejected
    /\ Publish(Fallback)
    /\ console' = "ml-error"
    /\ UNCHANGED <<API_BASE, phase, historicalData, wsRef, sockets, timers, features,
                   mlRequests, recv, response>>

\* if (!response.ok) throw
MlNotOkThrows ==
    /\ fetchPc = "mlFetching"
    /\ mlResponse' = MlNotOk
    /\ Publish(Fallback)
    /\ console' = "ml-error"
    /\ UNCHANGED <<API_BASE, phase, historicalData, wsRef, sockets, timers, features,
                   mlRequests, recv, response>>

MlOk(body) ==
    /\ fetchPc = "mlFetching"
    /\ mlResponse' = body
    /\ fetchPc' = "mlJson"
    /\ UNCHANGED <<API_BASE, phase, state, historicalData, wsRef, sockets, timers,
                   features, mlRequests, recv, console, response>>

MlJsonSettles ==
    /\ fetchPc = "mlJson"
    /\ IF mlResponse.kind = "throw"
       THEN /\ Publish(Fallback)
            /\ console' = "ml-error"
       ELSE /\ Publish(Extract(mlResponse.s, mlResponse.c))
            /\ UNCHANGED console
    /\ UNCHANGED <<API_BASE, phase, historicalData, wsRef, sockets, timers, features,
                   mlRequests, recv, response, mlResponse>>

Socks == 1..Len(sockets)

Next ==
    \/ Mount
    \/ Unmount
    \/ \E s \in Socks : TransportFails(s)
    \/ \E s \in Socks : TransportCloses(s)
    \/ \E s \in Socks : OnOpen(s)
    \/ \E s \in Socks, kind \in {"malformed", "null", "connection"} : OnMessageIgnored(s, kind)
    \/ \E s \in Socks : OnMessageAccepted(s, StreamRaw(recv + 1))
    \/ \E s \in Socks : OnClose(s)
    \/ \E s \in Socks : OnError(s)
    \/ ReconnectTimerFires
    \/ FetchRejects
    \/ FetchNotOk
    \/ \E body \in Envelopes : FetchOk(body)
    \/ JsonSettles
    \/ MlRejects
    \/ MlNotOkThrows
    \/ \E body \in MlBodies : MlOk(body)
    \/ MlJsonSettles

Spec == Init /\ [][Next]_vars

\* The scheduling the event loop guarantees: while an effect, a dispatched
\* event, a timer or a settling request is due, the run does not stop.
FairSpec == Spec /\ WF_vars(Next)

\* the event loop runs a timer callback that is due
TimerFairSpec == Spec /\ WF_vars(ReconnectTimerFires)

\* ---- the endpoint resolver on its own: base URLs over a small alphabet,
\* with an http:// or https:// scheme or with none, each resolved by the
\* first commit of a hook configured with it
MaxRest == 3
UrlChars == {"a", "s", ":", "/"}
Rests == UNION {[1..k -> UrlChars] : k \in 0..MaxRest}
BaseUrls == {HttpPrefix \o r : r \in Rests} \cup {HttpsPrefix \o r : r \in Rests} \cup Rests

ResolverInit ==
    /\ API_BASE \in BaseUrls
    /\ phase = "init"
    /\ state = InitialState
    /\ historicalData = <<>>
    /\ wsRef = 0
    /\ sockets = <<>>
    /\ timers = 0
    /\ fetchPc = "init"
    /\ features = Null
    /\ mlRequests = 0
    /\ recv = 0
    /\ console = "none"
    /\ response = NoResponse
    /\ mlResponse = MlNoResponse

ResolverSpec == ResolverInit /\ [][Mount]_vars

\* ------------------------------------------------------------ properties
\* the i-th historical record as normalized at some instant of the run
IsHist(rec, i) == \E t \in 0..MaxMsgs : rec = Normalize(HistRaw(i), <<1000 + t, 1>>)

\* the n-th streamed record as normalized on arrival
Streamed(n) == Normalize(StreamRaw(n), <<1000 + n - 1, 1>>)

\* C1: in every reachable state the rolling history buffer, and the data
\* published from it, hold at most 20 records.
C1_BufferBounded ==
    /\ Len(historicalData) <= 20
    /\ state.data # Null => Len(state.data[1]) <= 20

\* a full buffer that took two streamed records after the backfill installed
\* a full window
C1_Witness ==
    /\ Len(historicalData) = 20
    /\ recv >= 2
    /\ response.kind = "envelope" /\ response.n >= 20
    /\ historicalData[1] = Streamed(recv)
    /\ historicalData[2] = Streamed(recv - 1)

\* C2 (as claimed): a successful backfill of n oldest-first records installs
\* the min(n, 20) most recent of them, most recent first.
MostRecentFirst(n, now) ==
    [i \in 1..(IF n > 20 THEN 20 ELSE n) |-> Normalize(HistRaw(n + 1 - i), now)]

C2_BackfillKeepsMostRecent ==
    [][(/\ fetchPc = "json" /\ fetchPc' = "mlFetching"
        /\ response.kind = "envelope" /\ response.success /\ response.n >= 0)
       => historicalData' = MostRecentFirst(response.n, Now)]_vars

\* C3: the dispatch of a close event schedules exactly one reconnect timer,
\* and at most one reconnect timer is pending in every reachable state.
CloseDispatched(s) ==
    /\ sockets[s].events # <<>>
    /\ Head(sockets[s].events) = "close"
    /\ sockets'[s].events = Tail(sockets[s].events)

C3_OneReconnectPerClose ==
    /\ [](timers <= 1)
    /\ [][\A s \in Socks : CloseDispatched(s) => timers' = timers + 1]_vars

\* the second socket has closed too and its one reconnect is pending
C3_Witness ==
    /\ timers = 1
    /\ Len(sockets) >= 2
    /\ \A s \in Socks : sockets[s].readyState = "CLOSED" /\ sockets[s].events = <<>>
    /\ state.error = "ws"

\* C4 (as claimed): teardown closes the active connection, and from teardown
\* onward no reconnect timer is scheduled.
C4_NoReconnectAfterTeardown ==
    [][/\ (phase = "mounted" /\ phase' = "unmounted" /\ wsRef # 0)
          => sockets'[wsRef].readyState \in {"CLOSING", "CLOSED"}
       /\ phase' = "unmounted" => timers' <= timers]_vars

\* C5 (as claimed): the loading flag becomes false whatever the outcome of
\* the historical fetch and whether or not a connection ever opens; so it
\* is false once the fetch and the scoring that follows it have settled
\* and every connection attempt so far has ended closed.
C5_LoadingClearedOnceSettled ==
    (/\ phase = "mounted" /\ fetchPc = "done"
     /\ \A s \in Socks : sockets[s].readyState = "CLOSED")
    => ~state.loading

\* C6 (as claimed): when the historical fetch of a mounted component
\* resolves with anything but a well-formed success envelope, the buffer is
\* emptied, an empty list is published and loading is cleared.
WellFormed(r) == r.kind = "envelope" /\ r.success /\ r.n >= 0

C6_FailureEmptiesBuffer ==
    [][(/\ phase = "mounted"
        /\ fetchPc \in {"fetching", "json"} /\ fetchPc' = "mlFetching"
        /\ ~WellFormed(response'))
       => /\ historicalData' = <<>>
          /\ state'.data = Some(<<>>)
          /\ ~state'.loading]_vars

\* C7 (as claimed): the scoring request is issued exactly once, only after
\* the backfill has resolved, and no step of the connection (open, message,
\* error, close, reconnect) issues one or changes the published result.
ConnectionStep ==
    \/ sockets' # sockets
    \/ timers' # timers
    \/ recv' # recv
    \/ console' # console /\ console' \in {"handshake", "parse-error"}

C7_ScoringExactlyOnce ==
    /\ [](mlRequests <= 1)
    /\ [](phase # "init" /\ fetchPc \notin {"fetching", "json"} => mlRequests = 1)
    /\ [](mlRequests > 0 => response.kind # "none")
    /\ [][ConnectionStep => UNCHANGED <<mlRequests, state.mlResult>>]_vars

\* C8 (as claimed): when the historical fetch is empty or fails, the buffer
\* is empty when scoring starts and the features sent are the canonical
\* sample's values.
EmptyOrFailed(r) == ~(r.kind = "envelope" /\ r.success /\ r.n > 0)

CanonicalFeatures ==
    <<(<<100, 1>>), (<<6, 5>>), (<<7, 10>>), (<<4, 5>>), (<<3, 2>>), (<<1, 10>>), (<<50, 1>>)>>

C8_FallbackFeatures ==
    [][(/\ fetchPc \in {"fetching", "json"} /\ fetchPc' = "mlFetching"
        /\ EmptyOrFailed(response'))
       => /\ historicalData' = <<>>
          /\ features' = CanonicalFeatures]_vars

\* C9 (as claimed): a successful scoring response publishes its two slots
\* as they are, zero included, an absent slot becomes its default, and any
\* failure publishes {score: 4, confidence: 0.85}.
ClaimedResult(r) ==
    IF r.kind = "result"
    THEN [score |-> IF r.s = Null THEN <<4, 1>> ELSE r.s,
          confidence |-> IF r.c = Null THEN <<17, 20>> ELSE r.c]
    ELSE [score |-> <<4, 1>>, confidence |-> <<17, 20>>]

C9_SlotsPublishedAsReceived ==
    fetchPc = "done" => state.mlResult = Some(ClaimedResult(mlResponse))

\* C10: an accepted message puts its normalized record at index 0, the
\* earlier records follow in their order, and only the last one is dropped
\* when the buffer was full.
C10_FrontInsertion ==
    [][recv' = recv + 1
       => /\ historicalData'[1] = Normalize(StreamRaw(recv + 1), Now)
          /\ Tail(historicalData') =
                IF Len(historicalData) = 20
                THEN SubSeq(historicalData, 1, 19)
                ELSE historicalData]_vars

\* a streamed record in front of a window whose oldest record was evicted
C10_Witness ==
    /\ Len(historicalData) = 20
    /\ recv = 1
    /\ historicalData[1] = Streamed(1)
    /\ IsHist(historicalData[2], 20)
    /\ IsHist(historicalData[20], 2)

\* C11: a handshake message (type "connection") leaves the buffer, the
\* published data and the loading flag as they were.
HandshakeLogged == console' = "handshake" /\ console # "handshake"

C11_HandshakeChangesNothing ==
    [][HandshakeLogged => UNCHANGED <<historicalData, state.data, state.loading>>]_vars

\* a handshake was received while the buffer held streamed data
C11_Witness ==
    /\ console = "handshake"
    /\ recv >= 1
    /\ historicalData # <<>>
    /\ state.data = Some(historicalData)

\* the eight numeric fields of a raw record, each with the name it has in
\* the normalized record
NumericFields ==
    {<<"cadence", "cadence">>, <<"equilibrium", "equilibriumScore">>,
     <<"frequency", "frequency">>, <<"kneeForce", "kneeForce">>,
     <<"posturalSway", "posturalSway">>, <<"stepCount", "steps">>,
     <<"strideLength", "strideLength">>, <<"walkingSpeed", "walkingSpeed">>}

ZeroWhereAbsent(raw, rec) ==
    /\ \A p \in NumericFields :
          /\ rec[p[2]] # Null
          /\ raw[p[1]] = Null => rec[p[2]] = Zero
    /\ rec.sensors = <<>>

\* the step at which the fetched history is installed in the buffer
BackfillInstalled ==
    /\ fetchPc = "json" /\ fetchPc' = "mlFetching"
    /\ response.kind = "envelope" /\ response.success /\ response.n >= 0

\* C12: the record normalized from a raw record, streamed or fetched, has 0
\* in every numeric field the raw record omits or carries as null, never a
\* null, and its sensor readings are the empty sequence.
C12_AbsentFieldsBecomeZero ==
    [][/\ recv' = recv + 1 => ZeroWhereAbsent(StreamRaw(recv'), historicalData'[1])
       /\ BackfillInstalled =>
             \A i \in 1..Len(historicalData') :
                ZeroWhereAbsent(HistRaw(Len(historicalData') + 1 - i), historicalData'[i])]_vars

\* a streamed record without kneeForce and a fetched record without
\* cadence are in the buffer, each with 0 in that field
C12_Witness ==
    /\ StreamRaw(1).kneeForce = Null /\ HistRaw(4).cadence = Null
    /\ \E i, j \in 1..Len(historicalData) :
          /\ historicalData[i] = Streamed(1) /\ historicalData[i].kneeForce = Zero
          /\ IsHist(historicalData[j], 4) /\ historicalData[j].cadence = Zero

\* C13: the stream endpoint is the base URL with a leading http:// replaced
\* by ws:// and a leading https:// by wss://, the rest of the URL unchanged.
C13_SchemeReplaced ==
    \A s \in Socks :
       LET u == sockets[s].url
       IN  /\ StartsWith(API_BASE, HttpPrefix) =>
                /\ StartsWith(u, WsPrefix)
                /\ Drop(u, Len(WsPrefix)) = Drop(API_BASE, Len(HttpPrefix))
           /\ StartsWith(API_BASE, HttpsPrefix) =>
                /\ StartsWith(u, WssPrefix)
                /\ Drop(u, Len(WssPrefix)) = Drop(API_BASE, Len(HttpsPrefix))

\* a socket was opened from an https:// base URL with a non-empty rest
C13_Witness ==
    /\ StartsWith(API_BASE, HttpsPrefix)
    /\ Len(API_BASE) > Len(HttpsPrefix)
    /\ \E s \in Socks : StartsWith(sockets[s].url, WssPrefix)

\* the records of the buffer that came from streamed messages
StreamedRecords == {Streamed(n) : n \in 1..MaxMsgs}
IsStreamed(rec) == rec \in StreamedRecords
Holds(buf, rec) == \E j \in 1..Len(buf) : buf[j] = rec

\* the step at which a message is prepended onto a full buffer evicts the
\* last record
EvictedByOverflow(i) ==
    /\ recv' = recv + 1
    /\ Len(historicalData) = Capacity
    /\ i = Capacity

\* the step at which fetchHistoricalData resolves
FetchResolves == fetchPc \in {"fetching", "json"} /\ fetchPc' = "mlFetching"

\* C14 as stated: a streamed record leaves the buffer only by overflow
\* eviction, so the records streamed before the historical fetch resolves
\* are still in the buffer after it.
C14_StreamedLeaveOnlyByEviction ==
    [][\A i \in 1..Len(historicalData) :
          IsStreamed(historicalData[i]) =>
             \/ Holds(historicalData', historicalData[i])
             \/ EvictedByOverflow(i)]_vars

\* C14 as the code has it: a streamed record leaves the buffer only by
\* overflow eviction or at the step at which the historical fetch resolves,
\* which installs a new buffer.
C14_StreamedLeaveByEvictionOrBackfill ==
    [][\A i \in 1..Len(historicalData) :
          IsStreamed(historicalData[i]) =>
             \/ Holds(historicalData', historicalData[i])
             \/ EvictedByOverflow(i)
             \/ FetchResolves]_vars

\* two messages were streamed, then the fetch resolved with one record and
\* the buffer holds that record alone
C14_Witness ==
    /\ recv = MaxMsgs
    /\ fetchPc = "mlFetching"
    /\ response.kind = "envelope" /\ response.success /\ response.n = 1
    /\ Len(historicalData) = 1
    /\ IsHist(historicalData[1], 1)

\* the step that logs a message the handler could not parse or read
ParseErrorLogged == console' = "parse-error" /\ console # "parse-error"

\* C15: a malformed message leaves the whole published state and the
\* buffer unchanged, closes no connection and schedules no reconnect.
C15_MalformedChangesNothing ==
    [][ParseErrorLogged => UNCHANGED <<state, historicalData, sockets, wsRef, timers>>]_vars

\* a malformed message was dropped after a record had been streamed; the
\* connection is still open and no reconnect is pending
C15_Witness ==
    /\ console = "parse-error"
    /\ recv >= 1
    /\ wsRef # 0 /\ sockets[wsRef].readyState = "OPEN"
    /\ state.isConnected /\ state.error = "none"
    /\ timers = 0

\* the step at which the error event of socket s is dispatched
ErrorDispatched(s) ==
    /\ sockets[s].events # <<>> /\ Head(sockets[s].events) = "error"
    /\ sockets'[s].events = Tail(sockets[s].events)

\* C16: the error handler changes the error field and nothing else: the
\* connection's state, the connectivity flag, loading, the published data,
\* the buffer and the pending reconnects stay as they were.
C16_ErrorChangesOnlyError ==
    [][\A s \in Socks :
          ErrorDispatched(s) =>
             /\ state'.error = "ws"
             /\ state' = [state EXCEPT !.error = "ws"]
             /\ sockets'[s].readyState = sockets[s].readyState
             /\ UNCHANGED <<historicalData, wsRef, timers>>]_vars

\* the error of an open connection was recorded and its close event is
\* still to come: the flag is still true and no reconnect is pending
C16_Witness ==
    /\ state.error = "ws"
    /\ state.isConnected
    /\ timers = 0
    /\ \E s \in Socks : sockets[s].connected /\ sockets[s].events = <<"close">>

\* the connection manager is Connected from the open event of its current
\* socket to the close event of that socket
Connected == wsRef # 0 /\ sockets[wsRef].connected

OpenDispatched(s) == sockets[s].readyState = "CONNECTING" /\ sockets'[s].readyState = "OPEN"

\* C17: every open sets the connectivity flag and clears loading, every
\* close clears the flag, and in every reachable state the flag is true
\* exactly when the connection manager is Connected.
C17_FlagTracksConnection ==
    /\ [](state.isConnected <=> Connected)
    /\ [](wsRef # 0 /\ sockets[wsRef].readyState = "OPEN" => state.isConnected)
    /\ [](state.isConnected =>
             /\ wsRef # 0
             /\ sockets[wsRef].readyState # "CONNECTING"
             /\ sockets[wsRef].readyState = "CLOSED" => sockets[wsRef].events # <<>>)
    /\ [][\A s \in Socks :
             /\ OpenDispatched(s) => state'.isConnected /\ ~state'.loading
             /\ CloseDispatched(s) => ~state'.isConnected]_vars

\* the second connection is open and flagged after the first one closed
C17_Witness ==
    /\ Len(sockets) >= 2
    /\ sockets[1].readyState = "CLOSED" /\ sockets[1].events = <<>>
    /\ wsRef = 2 /\ sockets[2].readyState = "OPEN"
    /\ state.isConnected

C19_LoadingStaysCleared ==
    /\ [](state.data # Null => ~state.loading)
    /\ [][~state.loading => ~state'.loading]_vars

\* the backfill published an empty list and cleared loading before any
\* connection opened, and a later open left it cleared
C19_Witness ==
    /\ state.data = Some(<<>>)
    /\ ~state.loading
    /\ recv = 0
    /\ response.kind = "envelope"
    /\ \E s \in Socks : sockets[s].readyState = "OPEN"

\* C20: once the error field is set it is never cleared, whatever happens
\* later.
C20_ErrorNeverCleared ==
    [][state.error # "none" => state'.error # "none"]_vars

\* after a transport error the hook reconnected, a message was accepted and
\* the backfill and the scoring resolved; the error is still there
C20_Witness ==
    /\ state.error = "ws"
    /\ Len(sockets) >= 2 /\ sockets[Len(sockets)].readyState = "OPEN"
    /\ recv >= 1
    /\ fetchPc = "done"
    /\ response.kind = "envelope" /\ response.success /\ response.n >= 1
    /\ state.mlResult # Null

====
